---------------------------- MODULE Spec2Model ----------------------------
(***************************************************************************)
(* The instrumentation package of xray-poc                                 *)
(* (src/Source/instrumentation/__init__.py): the record(...) decorator,    *)
(* record_data and its helpers, over the trace backend (xray_recorder).    *)
(*                                                                         *)
(* The backend is external.  It is modelled by the stack of open trace    *)
(* entities (the segment at the bottom, subsegments above it) and by the   *)
(* fact that each of its calls either returns or raises.  The wrapped work *)
(* f and the extractor ("recorder") are caller-supplied functions: what    *)
(* they return or raise is an input.                                       *)
(***************************************************************************)
EXTENDS Naturals, Sequences, FiniteSets, TLC

VARIABLES
    entities,   \* the backend's stack of open trace entities, segment first
    calls,      \* the stack of running wrapper(...) frames
    events,     \* every call made on f, the extractor and the backend, in order
    api         \* the outcome of a direct record_data(key, value, searchable)

vars == <<entities, calls, events, api>>

(***************************************************************************)
(* Bounds                                                                  *)
(***************************************************************************)
\* the largest number of items in one half of a Record
MaxKeys == 2

\* the deepest nesting of wrapped calls
MaxDepth == 2

\* the largest number of items in one half of a Record once a wrapped call
\* has called another
MaxNestedKeys == 1

(***************************************************************************)
(* Python values                                                           *)
(***************************************************************************)
None == "None"

\* type(key) of the keys tried: str, int, and a subclass of str
KeyTypes == {"str", "int", "strsub"}

\* type(value) of the values tried: the builtins, a subclass of str, and a
\* subclass of dict (collections.OrderedDict)
ValueTypes == {"str", "bool", "int", "dict", "list", "strsub", "dictsub"}

KeyAt(i) == {[ty |-> t, name |-> "k" \o ToString(i)] : t \in KeyTypes}
Keys == UNION {KeyAt(i) : i \in 1..MaxKeys}
Values == {[ty |-> t, v |-> "x"] : t \in ValueTypes}

\* isinstance(key, str), isinstance(value, str), isinstance(value, dict)
IsString(ty) == ty \in {"str", "strsub"}
IsMapping(ty) == ty \in {"dict", "dictsub"}
\* isinstance(value, numbers.Number): bool is a subclass of int
IsNumber(ty) == ty \in {"int", "float", "bool"}

\* what f may return
Results == {None, "r1"}

\* the names a subsegment may be given
SubsegmentNames == {"ss1"}

\* errors that are instances of Exception, by where they are raised
KeyTypeError == "ValueError('key must be a string')"
SearchableTypeError == "ValueError('searchable value must be a string, number or bool')"
NonSearchableTypeError == "ValueError('non-searchable value must be a dictionary')"
ItemsError == "AttributeError('items')"
Exceptions ==
    { "FError", "ExtractorError", KeyTypeError, SearchableTypeError,
      NonSearchableTypeError, ItemsError,
      "BeginError", "ReadError", "PutError", "EndError" }
\* raised by f or the extractor and not an instance of Exception (SystemExit)
BaseExceptions == {"FExit", "ExtractorExit"}

\* error.__repr__()
Repr(error) == "repr(" \o error \o ")"

TrueValue == [ty |-> "bool", v |-> "True"]
DetailValue(error) == [ty |-> "dict", v |-> "{'message': " \o Repr(error) \o "}"]
ErrorKey == [ty |-> "str", name |-> "instrumentation_error"]
ErrorDetailKey == [ty |-> "str", name |-> "instrumentation_error_detail"]

NoKey == [ty |-> "none", name |-> "none"]
NoValue == [ty |-> "none", v |-> "none"]


(***************************************************************************)
(* The trace backend (xray_recorder), as the package uses it               *)
(***************************************************************************)
\* the stacks of open entities an operation may start from: a bare segment, or
\* a segment with a subsegment already open
InitialEntities == {<<"segment">>, <<"segment", "sub0">>}

\* xray_recorder.current_segment()
CurrentSegment(ents) == ents[1]

\* xray_recorder.current_subsegment(): None when only the segment is open
CurrentSubsegment(ents) == IF Len(ents) > 1 THEN ents[Len(ents)] ELSE None

\* the innermost open entity of the backend
Innermost(ents) == ents[Len(ents)]

\* xray_recorder.begin_subsegment(name), when it returns
BeginSubsegmentOk(ents, name) == Append(ents, name)

\* xray_recorder.end_subsegment(), when it returns: the innermost subsegment
\* is closed; with only the segment open there is nothing to end
EndSubsegmentOk(ents) == IF Len(ents) > 1 THEN SubSeq(ents, 1, Len(ents) - 1) ELSE ents

\* how one backend call ends
CallOutcomes == {"returns", "raises"}

\* how the backend calls of one record_data end: both reads and the put
\* return, a read raises, or the put raises
BackendOutcomes == {"ok", "read_raises", "put_raises"}

(***************************************************************************)
(* Events                                                                  *)
(***************************************************************************)
\* a call that is no write: begin_subsegment, f, recorder, end_subsegment
CallEvent(name, inv, ents, raised) ==
    [ ev |-> name, inv |-> inv, key |-> NoKey, value |-> NoValue,
      span |-> "none", top |-> Innermost(ents), raised |-> raised ]

\* span.put_annotation(key, value) or span.put_metadata(key, value)
PutEvent(name, inv, key, value, span, ents, raised) ==
    [ ev |-> name, inv |-> inv, key |-> key, value |-> value,
      span |-> span, top |-> Innermost(ents), raised |-> raised ]

(***************************************************************************)
(* record_data and its helpers                                             *)
(***************************************************************************)
\* __assert_type__(key, value, searchable): "ok", or the error raised
AssertType(key, value, searchable) ==
    IF key.ty # "str" THEN KeyTypeError
    ELSE IF searchable
         THEN IF (value.ty \notin {"str", "bool"}) /\ ~IsNumber(value.ty)
              THEN SearchableTypeError
              ELSE "ok"
         ELSE IF value.ty # "dict"
              THEN NonSearchableTypeError
              ELSE "ok"

\* every write sent to the segment
SpanSegment(ents) == CurrentSegment(ents)

\* span = subsegment if subsegment is not None else segment
Span(ents) ==
    IF CurrentSubsegment(ents) # None THEN CurrentSubsegment(ents) ELSE CurrentSegment(ents)

\* record_data(key, value, searchable) with the backend behaving as b, called
\* by invocation inv: the error raised ("none" when it returns) and the
\* backend writes issued
RecordData(key, value, searchable, b, ents, inv) ==
    LET check == AssertType(key, value, searchable)
        put == IF searchable THEN "put_annotation" ELSE "put_metadata"
    IN  IF check # "ok" THEN [raised |-> check, puts |-> <<>>]
        ELSE IF b = "read_raises" THEN [raised |-> "ReadError", puts |-> <<>>]
        ELSE IF b = "put_raises"
             THEN [ raised |-> "PutError",
                    puts |-> <<PutEvent(put, inv, key, value, Span(ents), ents, TRUE)>> ]
             ELSE [ raised |-> "none",
                    puts |-> <<PutEvent(put, inv, key, value, Span(ents), ents, FALSE)>> ]

(***************************************************************************)
(* Frames of the wrapper function that record(...) builds                  *)
(***************************************************************************)
\* one half of a Record: None, a value with no items() (not a mapping), or a
\* dict of len items
Halves ==
    {[kind |-> "None", len |-> 0], [kind |-> "other", len |-> 0]}
        \cup {[kind |-> "dict", len |-> n] : n \in 0..MaxKeys}

NoHalf == [kind |-> "unset", len |-> 0]
NoData == [kind |-> "unset", searchable |-> NoHalf, non_searchable |-> NoHalf]
\* what the recorder returns when it is not a Record
OtherData == [kind |-> "other", searchable |-> NoHalf, non_searchable |-> NoHalf]
\* Record(searchable, non_searchable)
Record(s, n) == [kind |-> "Record", searchable |-> s, non_searchable |-> n]

NoPending == [kind |-> "none", val |-> "none"]

\* the frame of a call of wrapper built by record(recorder, subsegment)
NewFrame(subsegment, recorder) ==
    [ subsegment |-> subsegment, recorder |-> recorder, pc |-> "begin",
      result |-> "unset", error |-> "none", data |-> NoData,
      seenS |-> <<>>, seenN |-> <<>>, pending |-> NoPending ]

top == calls[Len(calls)]
Depth == Len(calls)
Running(pc) == calls # <<>> /\ top.pc = pc
SetTop(frame) == calls' = [calls EXCEPT ![Len(calls)] = frame]

\* "except Exception as error": what the clause catches
Caught(error) == error \in Exceptions

\* an error raised inside the try block: caught by the except clause, or on
\* its way out through the finally clause
Raised(frame, error) ==
    IF Caught(error)
    THEN [frame EXCEPT !.error = error, !.pc = "except"]
    ELSE [frame EXCEPT !.pending = [kind |-> "raise", val |-> error], !.pc = "finally"]

\* an error raised inside the except clause: on its way out through finally
RaisedInHandler(frame, error) ==
    [frame EXCEPT !.pending = [kind |-> "raise", val |-> error], !.pc = "finally"]

\* "return result" inside the try block: the finally clause runs first
Return(frame, value) ==
    [frame EXCEPT !.pending = [kind |-> "return", val |-> value], !.pc = "finally"]

\* "if subsegment is not None" before begin_subsegment
OpensScope(frame) == frame.subsegment # None

\* the close moved out of the finally clause, to the end of the try block
ClosesScopeOnSuccess(frame) == frame.subsegment # None /\ frame.error = "none"

\* "if subsegment is not None" in the finally clause
ClosesScope(frame) == frame.subsegment # None

\* the recorder called whether or not one was given
HasRecorderAlways(frame) == TRUE

\* "if recorder:"
HasRecorder(frame) == frame.recorder # None

\* isinstance(data, Record)
IsRecord(data) == data.kind = "Record"

(***************************************************************************)
(* Operations                                                              *)
(***************************************************************************)
NoApi == [op |-> "none", key |-> NoKey, value |-> NoValue, searchable |-> FALSE,
          raised |-> "none"]

Idle == calls = <<>> /\ events = <<>> /\ api = NoApi

Init ==
    /\ entities \in InitialEntities
    /\ calls = <<>>
    /\ events = <<>>
    /\ api = NoApi

\* a call of the wrapped function built by record(recorder, subsegment)
Invoke(subsegment, recorder) ==
    /\ Idle
    /\ calls' = <<NewFrame(subsegment, recorder)>>
    /\ UNCHANGED <<entities, events, api>>

\* if subsegment is not None: xray_recorder.begin_subsegment(subsegment)
BeginSubsegment ==
    /\ Running("begin")
    /\ IF OpensScope(top)
       THEN \E o \in CallOutcomes :
              /\ events' = Append(events,
                     CallEvent("begin_subsegment", Depth, entities, o = "raises"))
              /\ IF o = "returns"
                 THEN /\ entities' = BeginSubsegmentOk(entities, top.subsegment)
                      /\ SetTop([top EXCEPT !.pc = "call_f"])
                 ELSE /\ UNCHANGED entities
                      /\ SetTop(Raised(top, "BeginError"))
       ELSE /\ SetTop([top EXCEPT !.pc = "call_f"])
            /\ UNCHANGED <<entities, events>>
    /\ UNCHANGED api

\* after "result = f(...)" has returned: to the recorder, or "return result"
AfterF(frame) ==
    IF HasRecorder(frame) THEN [frame EXCEPT !.pc = "extract"]
    ELSE Return(frame, frame.result)

\* result = f(...)
CallF ==
    /\ Running("call_f")
    /\ \/ \E r \in Results :
            /\ events' = Append(events, CallEvent("f", Depth, entities, FALSE))
            /\ SetTop(AfterF([top EXCEPT !.result = r]))
       \/ \E e \in {"FError", "FExit"} :
            /\ events' = Append(events, CallEvent("f", Depth, entities, TRUE))
            /\ SetTop(Raised(top, e))
    /\ UNCHANGED <<entities, api>>

\* after "data = recorder(result, kwargs)" has returned
AfterRecorder(frame) ==
    IF IsRecord(frame.data) THEN [frame EXCEPT !.pc = "searchable"]
    ELSE Return(frame, frame.result)

\* the halves the recorder may return: smaller ones in a run with nested
\* wrapped calls
RecordHalves ==
    IF \E i \in DOMAIN events : events[i].ev = "call"
    THEN {h \in Halves : h.len <= MaxNestedKeys}
    ELSE Halves

\* data = recorder(result, kwargs)
Extract ==
    /\ Running("extract")
    /\ \/ \E s \in RecordHalves, n \in RecordHalves :
            /\ events' = Append(events, CallEvent("recorder", Depth, entities, FALSE))
            /\ SetTop(AfterRecorder([top EXCEPT !.data = Record(s, n)]))
       \/ /\ events' = Append(events, CallEvent("recorder", Depth, entities, FALSE))
          /\ SetTop(AfterRecorder([top EXCEPT !.data = OtherData]))
       \/ \E e \in {"ExtractorError", "ExtractorExit"} :
            /\ events' = Append(events, CallEvent("recorder", Depth, entities, TRUE))
            /\ SetTop(Raised(top, e))
    /\ UNCHANGED <<entities, api>>

\* the half of the Record that __record_data__(data, searchable) is given
Half(frame, searchable) ==
    IF searchable THEN frame.data.searchable ELSE frame.data.non_searchable

\* the items of that half that "for key, value in data.items()" has yielded
Seen(frame, searchable) == IF searchable THEN frame.seenS ELSE frame.seenN

See(frame, searchable, item) ==
    IF searchable THEN [frame EXCEPT !.seenS = Append(@, item)]
    ELSE [frame EXCEPT !.seenN = Append(@, item)]

\* "return result" right after the searchable half
AfterHalfReturns(frame, searchable) == Return(frame, frame.result)

\* after __record_data__(data.searchable, True) comes
\* __record_data__(data.non_searchable, False), then "return result"
AfterHalf(frame, searchable) ==
    IF searchable THEN [frame EXCEPT !.pc = "non_searchable"]
    ELSE Return(frame, frame.result)

\* __record_data__(data, searchable), one item of data.items() at a step.  The
\* contents of the mapping are an input: each item is drawn when the loop
\* yields it and kept in the frame.
RecordHalf(searchable) ==
    LET half == Half(top, searchable)
        seen == Seen(top, searchable)
    IN  \/ /\ half.kind = "None"
           /\ SetTop(AfterHalf(top, searchable))
           /\ UNCHANGED events
        \/ /\ half.kind = "other"
           /\ SetTop(Raised(top, ItemsError))
           /\ UNCHANGED events
        \/ /\ half.kind = "dict"
           /\ Len(seen) = half.len
           /\ SetTop(AfterHalf(top, searchable))
           /\ UNCHANGED events
        \/ /\ half.kind = "dict"
           /\ Len(seen) < half.len
           /\ \E key \in KeyAt(Len(seen) + 1), value \in Values, b \in BackendOutcomes :
                LET r == RecordData(key, value, searchable, b, entities, Depth)
                    f1 == See(top, searchable, [key |-> key, value |-> value])
                IN  /\ events' = events \o r.puts
                    /\ SetTop(IF r.raised = "none" THEN f1 ELSE Raised(f1, r.raised))

\* __record_data__(data.searchable, True)
RecordSearchable ==
    /\ Running("searchable")
    /\ RecordHalf(TRUE)
    /\ UNCHANGED <<entities, api>>

\* __record_data__(data.non_searchable, False)
RecordNonSearchable ==
    /\ Running("non_searchable")
    /\ RecordHalf(FALSE)
    /\ UNCHANGED <<entities, api>>

\* the except clause ends without a return statement: wrapper returns None
FallOff(frame) == Return(frame, None)

\* except Exception as error: __record_error__(error)
RecordError ==
    /\ Running("except")
    /\ \E b1 \in BackendOutcomes, b2 \in BackendOutcomes :
         LET marker == RecordData(ErrorKey, TrueValue, TRUE, b1, entities, Depth)
             detail == RecordData(ErrorDetailKey, DetailValue(top.error), FALSE, b2,
                                  entities, Depth)
         IN  IF marker.raised # "none"
             THEN /\ events' = events \o marker.puts
                  /\ SetTop(RaisedInHandler(top, marker.raised))
             ELSE /\ events' = events \o marker.puts \o detail.puts
                  /\ SetTop(IF detail.raised # "none"
                            THEN RaisedInHandler(top, detail.raised)
                            ELSE FallOff(top))
    /\ UNCHANGED <<entities, api>>

\* finally: if subsegment is not None: xray_recorder.end_subsegment().  An
\* error raised here replaces the pending return or error.
EndSubsegment ==
    /\ Running("finally")
    /\ IF ClosesScope(top)
       THEN \E o \in CallOutcomes :
              /\ events' = Append(events,
                     CallEvent("end_subsegment", Depth, entities, o = "raises"))
              /\ IF o = "returns"
                 THEN /\ entities' = EndSubsegmentOk(entities)
                      /\ SetTop([top EXCEPT !.pc = "done"])
                 ELSE /\ UNCHANGED entities
                      /\ SetTop([top EXCEPT !.pc = "done",
                                            !.pending = [kind |-> "raise", val |-> "EndError"]])
       ELSE /\ SetTop([top EXCEPT !.pc = "done"])
            /\ UNCHANGED <<entities, events>>
    /\ UNCHANGED api

\* a direct call record_data(key, value, searchable)
RecordDataCall(key, value, searchable) ==
    /\ Idle
    /\ \E b \in BackendOutcomes :
         LET r == RecordData(key, value, searchable, b, entities, 0)
         IN  /\ events' = r.puts
             /\ api' = [op |-> "record_data", key |-> key, value |-> value,
                        searchable |-> searchable, raised |-> r.raised]
    /\ UNCHANGED <<entities, calls>>

Next ==
    \/ \E subsegment \in SubsegmentNames \cup {None}, recorder \in {None, "recorder"} :
            Invoke(subsegment, recorder)
    \/ BeginSubsegment
    \/ CallF
    \/ Extract
    \/ RecordSearchable
    \/ RecordNonSearchable
    \/ RecordError
    \/ EndSubsegment
    \/ \E key \in KeyAt(1), value \in Values, searchable \in BOOLEAN :
            RecordDataCall(key, value, searchable)

Spec == Init /\ [][Next]_vars

(***************************************************************************)
(* Nested wrapped calls: dispatch, wrapped with a recorder, calls          *)
(* sms_processor or email_processor, wrapped with a subsegment name        *)
(* (message_server.py)                                                     *)
(***************************************************************************)
\* the running f has already called a wrapped function
CalledInner == \E i \in DOMAIN events : events[i].ev = "call" /\ events[i].inv = Depth + 1

\* the body of f calls a function wrapped with a subsegment name and no
\* recorder, as sms_processor and email_processor are
CallInner(subsegment) ==
    /\ Running("call_f")
    /\ Depth < MaxDepth
    /\ ~CalledInner
    /\ events' = Append(events, CallEvent("call", Depth + 1, entities, FALSE))
    /\ calls' = Append(calls, NewFrame(subsegment, None))
    /\ UNCHANGED <<entities, api>>

\* the inner wrapped call returns or raises into the body of f, which goes on
ReturnInner ==
    /\ Depth > 1
    /\ top.pc = "done"
    /\ events' = Append(events,
           CallEvent("return", Depth, entities, top.pending.kind = "raise"))
    /\ calls' = SubSeq(calls, 1, Depth - 1)
    /\ UNCHANGED <<entities, api>>

NextNested ==
    \/ Next
    \/ \E subsegment \in SubsegmentNames : CallInner(subsegment)
    \/ ReturnInner

SpecNested == Init /\ [][NextNested]_vars

(***************************************************************************)
(* Vocabulary of the properties                                            *)
(***************************************************************************)
\* the invocation of the wrapped call, and whether it has returned or raised
\* to its caller
Invocation == calls[1]
Finished == calls # <<>> /\ Invocation.pc = "done"
Named == Invocation.subsegment # None

\* the calls of one kind made so far, as positions in events
Calls(name) == {i \in DOMAIN events : events[i].ev = name}
Puts == Calls("put_annotation") \cup Calls("put_metadata")

\* the caller's view of a finished invocation
ReturnedTo(value) == Invocation.pending = [kind |-> "return", val |-> value]
RaisedToCaller == Invocation.pending.kind = "raise"

\* a write of (key, value) of one kind, issued on the entity that was
\* innermost when it was issued, and accepted by the backend
Written(name, key, value) ==
    \E i \in Calls(name) :
        /\ events[i].key = key
        /\ events[i].value = value
        /\ events[i].span = events[i].top
        /\ ~events[i].raised

ValidationErrors == {KeyTypeError, SearchableTypeError, NonSearchableTypeError}

(***************************************************************************)
(* C1: an invocation built with a subsegment name calls end_subsegment     *)
(* exactly once on every exit path (normal return, f raising, the          *)
(* extractor raising, a validation error, a backend write error): never    *)
(* more than once while it runs, and exactly once when it has finished.    *)
(***************************************************************************)
C1_ScopeClosedExactlyOnce ==
    (calls # <<>> /\ Named) =>
        /\ Cardinality(Calls("end_subsegment")) <= 1
        /\ Invocation.pc = "done" => Cardinality(Calls("end_subsegment")) = 1

\* a named invocation that finished after a backend write raised while the
\* Record was being written
C1_Witness ==
    /\ Finished
    /\ Named
    /\ Invocation.error = "PutError"
    /\ Cardinality(Calls("end_subsegment")) = 1

(***************************************************************************)
(* C2: when the extractor raises an Exception, the caller sees no          *)
(* exception; instrumentation_error=True is written as an annotation and   *)
(* instrumentation_error_detail={'message': repr(error)} as metadata, each *)
(* to the innermost entity; and a named invocation has called              *)
(* end_subsegment exactly once.                                            *)
(***************************************************************************)
C2_ExtractorErrorContained ==
    (Finished /\ Invocation.error = "ExtractorError") =>
        /\ ~RaisedToCaller
        /\ Written("put_annotation", ErrorKey, TrueValue)
        /\ Written("put_metadata", ErrorDetailKey, DetailValue("ExtractorError"))
        /\ Named => Cardinality(Calls("end_subsegment")) = 1

(***************************************************************************)
(* C3: when f raises an Exception, the wrapped call does not raise to its  *)
(* caller: it writes the error marker and the error detail, returns None,  *)
(* and never calls the extractor.                                          *)
(***************************************************************************)
C3_WorkErrorContained ==
    (Finished /\ Invocation.error = "FError") =>
        /\ ReturnedTo(None)
        /\ Written("put_annotation", ErrorKey, TrueValue)
        /\ Written("put_metadata", ErrorDetailKey, DetailValue("FError"))
        /\ Calls("recorder") = {}

(***************************************************************************)
(* C4: the caller of the wrapped call never sees an error raised by the    *)
(* extractor, by the validation of a write, or by a backend call (a put,   *)
(* a read of the current segment or subsegment, end_subsegment).           *)
(***************************************************************************)
RecordingErrors ==
    ValidationErrors \cup {"ExtractorError", ItemsError, "ReadError", "PutError", "EndError"}

C4_NothingEscapes ==
    (Finished /\ RaisedToCaller) => Invocation.pending.val \notin RecordingErrors

(***************************************************************************)
(* C5: whenever f returns normally with result r, the wrapped call returns *)
(* r to its caller, both when the recording that follows completes and     *)
(* when the extractor, the validation or a backend write fails in it.      *)
(* (The invocations that raise to the caller are C4's; this is the claim   *)
(* for the invocations that return.)                                       *)
(***************************************************************************)
C5_ResultNeverMasked ==
    (Finished /\ Invocation.result # "unset" /\ ~RaisedToCaller) =>
        ReturnedTo(Invocation.result)

(***************************************************************************)
(* C6: every write (annotation or metadata, the error marker and detail    *)
(* included) is issued on the entity that is innermost when it is issued:  *)
(* the open subsegment if there is one, the segment otherwise.             *)
(***************************************************************************)
C6_WritesTargetInnermost ==
    \A i \in Puts : events[i].span = events[i].top

\* the error marker written to the subsegment the invocation opened
C6_Witness ==
    \E i \in Calls("put_annotation") :
        /\ events[i].key = ErrorKey
        /\ events[i].span = "ss1"
        /\ Len(entities) > 1

(***************************************************************************)
(* C7: for every valid Record that the extractor returns, the wrapped call *)
(* issues exactly one put_annotation per key of the searchable half and    *)
(* exactly one put_metadata per key of the non_searchable half, with the   *)
(* key and the value of the Record; a half that is None produces none.     *)
(***************************************************************************)
\* the keys and values of the writes of one kind, in the order issued
RECURSIVE PutsFrom(_, _)
PutsFrom(name, i) ==
    IF i > Len(events) THEN <<>>
    ELSE IF events[i].ev = name
         THEN <<[key |-> events[i].key, value |-> events[i].value]>> \o PutsFrom(name, i + 1)
         ELSE PutsFrom(name, i + 1)

\* both halves are None or a dict, and every item passes the validation of
\* its half
ValidHalf(half, seen, searchable) ==
    /\ half.kind \in {"None", "dict"}
    /\ \A j \in DOMAIN seen : AssertType(seen[j].key, seen[j].value, searchable) = "ok"

ValidRecord(frame) ==
    /\ IsRecord(frame.data)
    /\ ValidHalf(frame.data.searchable, frame.seenS, TRUE)
    /\ ValidHalf(frame.data.non_searchable, frame.seenN, FALSE)

\* the writes issued are the items of the two halves, one for one
OneWritePerKey(frame) ==
    /\ Len(frame.seenS) = frame.data.searchable.len
    /\ Len(frame.seenN) = frame.data.non_searchable.len
    /\ PutsFrom("put_annotation", 1) = frame.seenS
    /\ PutsFrom("put_metadata", 1) = frame.seenN

C8_ValidatesBeforeWriting ==
    api.op = "record_data" =>
        LET passes == api.raised \notin ValidationErrors
        IN  /\ ~IsString(api.key.ty) => api.raised = KeyTypeError
            /\ (IsString(api.key.ty) /\ api.searchable) =>
                 /\ passes <=>
                      (IsString(api.value.ty) \/ api.value.ty = "bool" \/ IsNumber(api.value.ty))
                 /\ ~passes => api.raised = SearchableTypeError
            /\ (IsString(api.key.ty) /\ ~api.searchable) =>
                 /\ passes <=> IsMapping(api.value.ty)
                 /\ ~passes => api.raised = NonSearchableTypeError
            /\ ~passes => events = <<>>

(***************************************************************************)
(* C9: when the extractor returns a value that is not a Record, no         *)
(* annotation, no metadata and no error marker is written, and the         *)
(* wrapped call returns f's result.                                        *)
(***************************************************************************)
C9_NonRecordIgnored ==
    (Finished /\ Invocation.data.kind = "other") =>
        /\ Puts = {}
        /\ ReturnedTo(Invocation.result)

(***************************************************************************)
(* C10: a call wrapped with no extractor still calls begin_subsegment      *)
(* before f and end_subsegment after it when a name is given, and issues   *)
(* no write at all.                                                        *)
(***************************************************************************)
\* begin_subsegment once and first, end_subsegment once and last
OpensBeforeAndClosesAfter ==
    /\ Cardinality(Calls("begin_subsegment")) = 1
    /\ Cardinality(Calls("end_subsegment")) = 1
    /\ events[1].ev = "begin_subsegment"
    /\ events[Len(events)].ev = "end_subsegment"

Before(first, second) == \A i \in first, j \in second : i < j

\* the writes of the items of the Record, by kind
RecordPuts(name) ==
    {i \in Calls(name) : events[i].key \notin {ErrorKey, ErrorDetailKey}}

\* the order of the calls, whatever their number
InOrder ==
    /\ Before(Calls("begin_subsegment"), Calls("f"))
    /\ Before(Calls("f"), Calls("recorder"))
    /\ Cardinality(Calls("f")) <= 1
    /\ Cardinality(Calls("recorder")) <= 1
    /\ Before(Calls("recorder"), Puts)
    /\ Before(RecordPuts("put_annotation"), RecordPuts("put_metadata"))
    /\ Before(Puts, Calls("end_subsegment"))

C11_OrderOfEvents ==
    Finished =>
        /\ InOrder
        /\ Named => Cardinality(Calls("begin_subsegment")) = 1
        /\ Cardinality(Calls("f")) = 1
        /\ Named => \A i \in Puts : events[i].span = Invocation.subsegment

(***************************************************************************)
(* C12: on every path an invocation calls end_subsegment as many times as  *)
(* its begin_subsegment calls returned (0 or 1): if opening the subsegment *)
(* fails, the invocation closes nothing.                                   *)
(***************************************************************************)
Opened == {i \in Calls("begin_subsegment") : ~events[i].raised}

C12_ClosesOnlyWhatItOpened ==
    Finished => Cardinality(Calls("end_subsegment")) = Cardinality(Opened)

(***************************************************************************)
(* C13: a wrapped call that returns leaves the stack of trace entities as  *)
(* it found it: the entity innermost after it is the one that was          *)
(* innermost before it; hence the writes an outer wrapped call makes after *)
(* an inner, named wrapped call has returned go to the outer call's        *)
(* entity, never to the inner call's.                                      *)
(***************************************************************************)
\* the inner wrapped calls that have returned, as (call, return) positions
ReturnedCalls ==
    {c \in Calls("call") \X Calls("return") :
        /\ events[c[1]].inv = events[c[2]].inv
        /\ c[1] < c[2]
        /\ ~events[c[2]].raised}

C13_ScopeStackRestored ==
    \A c \in ReturnedCalls :
        /\ events[c[2]].top = events[c[1]].top
        /\ \A p \in Puts :
             (p > c[2] /\ events[p].inv = events[c[1]].inv - 1) =>
                 events[p].span = events[c[1]].top

=============================================================================
